---- MODULE Spec2Model ----
(***************************************************************************)
(* The beam analysis engine of src/src/BeamCalculator.tsx: mesh building,  *)
(* assembly of the global stiffness system, boundary-condition reduction,  *)
(* Gauss-Jordan solution, reaction recovery and diagram sampling.          *)
(*                                                                         *)
(* A JavaScript number is modelled either as an exact rational             *)
(* [n |-> numerator, d |-> denominator > 0] in lowest terms, or as an IEEE *)
(* 754 binary64 value.  Arrays are sequences: the element of index i in    *)
(* the source is the element i + 1 here.                                   *)
(***************************************************************************)
EXTENDS Integers, Sequences, FiniteSets, TLC

\* ------------------------------------------------------------------------
\* Numbers: exact rationals
\* ------------------------------------------------------------------------

AbsInt(i) == IF i < 0 THEN -i ELSE i

RECURSIVE Gcd(_, _)
Gcd(a, b) == IF b = 0 THEN a ELSE Gcd(b, a % b)

QFrac(i, j) ==
  LET g == Gcd(AbsInt(i), j) IN [n |-> i \div g, d |-> j \div g]

QAdd(a, b) ==
  LET g == Gcd(a.d, b.d)
      bd == b.d \div g
  IN  QFrac(a.n * bd + b.n * (a.d \div g), a.d * bd)

QNeg(a) == [n |-> -a.n, d |-> a.d]

QSub(a, b) == QAdd(a, QNeg(b))

QMul(a, b) ==
  LET g1 == Gcd(AbsInt(a.n), b.d)
      g2 == Gcd(AbsInt(b.n), a.d)
  IN  [n |-> (a.n \div g1) * (b.n \div g2), d |-> (a.d \div g2) * (b.d \div g1)]

QInv(a) == IF a.n > 0 THEN [n |-> a.d, d |-> a.n] ELSE [n |-> -a.d, d |-> -a.n]

QDiv(a, b) == QMul(a, QInv(b))

QAbs(a) == [n |-> AbsInt(a.n), d |-> a.d]

\* an/ad < bn/bd for an, bn >= 0 and ad, bd > 0, by continued fractions (no product)
RECURSIVE LtPos(_, _, _, _)
LtPos(an, ad, bn, bd) ==
  IF an \div ad # bn \div bd THEN an \div ad < bn \div bd
  ELSE IF bn % bd = 0 THEN FALSE
  ELSE IF an % ad = 0 THEN TRUE
  ELSE LtPos(bd, bn % bd, ad, an % ad)

QLt(a, b) ==
  IF a.n < 0 /\ b.n >= 0 THEN TRUE
  ELSE IF a.n >= 0 /\ b.n < 0 THEN FALSE
  ELSE IF a.n < 0 THEN LtPos(-b.n, b.d, -a.n, a.d)
  ELSE LtPos(a.n, a.d, b.n, b.d)

\* ------------------------------------------------------------------------
\* Numbers: IEEE 754 binary64, the number type of the source
\* ------------------------------------------------------------------------

\* Natural numbers of any size: little-endian sequences of limbs below
\* LimbBase without a leading zero limb; <<>> is 0.
NatFormat == [limbBits |-> 14]

LimbBits == NatFormat.limbBits

LimbBase == 2 ^ LimbBits

RECURSIVE Trim(_)
Trim(a) == IF a = <<>> \/ a[Len(a)] # 0 THEN a ELSE Trim(SubSeq(a, 1, Len(a) - 1))

RECURSIVE NatOf(_)
NatOf(i) == IF i = 0 THEN <<>> ELSE <<i % LimbBase>> \o NatOf(i \div LimbBase)

Limb(a, i) == IF i <= Len(a) THEN a[i] ELSE 0

RECURSIVE AddFrom(_, _, _, _)
AddFrom(a, b, i, carry) ==
  IF i > Len(a) /\ i > Len(b) THEN (IF carry = 0 THEN <<>> ELSE <<carry>>)
  ELSE <<(Limb(a, i) + Limb(b, i) + carry) % LimbBase>>
         \o AddFrom(a, b, i + 1, (Limb(a, i) + Limb(b, i) + carry) \div LimbBase)

NatAdd(a, b) == AddFrom(a, b, 1, 0)

RECURSIVE SubFrom(_, _, _, _)
SubFrom(a, b, i, borrow) ==
  IF i > Len(a) THEN <<>>
  ELSE IF a[i] - Limb(b, i) - borrow < 0
    THEN <<a[i] - Limb(b, i) - borrow + LimbBase>> \o SubFrom(a, b, i + 1, 1)
  ELSE <<a[i] - Limb(b, i) - borrow>> \o SubFrom(a, b, i + 1, 0)

\* a - b for a >= b
NatSub(a, b) == Trim(SubFrom(a, b, 1, 0))

RECURSIVE CmpFrom(_, _, _)
CmpFrom(a, b, i) ==
  IF i = 0 THEN 0
  ELSE IF a[i] # b[i] THEN (IF a[i] < b[i] THEN -1 ELSE 1)
  ELSE CmpFrom(a, b, i - 1)

\* -1, 0 or 1 as a is below, equal to or above b
NatCmp(a, b) ==
  IF Len(a) # Len(b) THEN (IF Len(a) < Len(b) THEN -1 ELSE 1) ELSE CmpFrom(a, b, Len(a))

RECURSIVE ScaleFrom(_, _, _, _)
ScaleFrom(a, s, i, carry) ==
  IF i > Len(a) THEN (IF carry = 0 THEN <<>> ELSE <<carry>>)
  ELSE <<(a[i] * s + carry) % LimbBase>>
         \o ScaleFrom(a, s, i + 1, (a[i] * s + carry) \div LimbBase)

\* a * s for 0 <= s <= LimbBase
NatScale(a, s) == IF s = 0 THEN <<>> ELSE ScaleFrom(a, s, 1, 0)

ZeroLimbs(n) == SubSeq([i \in 1..n |-> 0], 1, n)

\* a * 2^n
NatShl(a, n) ==
  IF a = <<>> THEN <<>>
  ELSE ZeroLimbs(n \div LimbBits) \o NatScale(a, 2 ^ (n % LimbBits))

RECURSIVE MulFrom(_, _, _)
MulFrom(a, b, i) ==
  IF i > Len(b) THEN <<>>
  ELSE NatAdd(NatScale(a, b[i]), NatShl(MulFrom(a, b, i + 1), LimbBits))

NatMul(a, b) == MulFrom(a, b, 1)

\* floor(a / 2^n)
NatShr(a, n) ==
  LET drop == n \div LimbBits
      r == n % LimbBits
  IN  IF drop >= Len(a) THEN <<>>
      ELSE LET d == SubSeq(a, drop + 1, Len(a))
           IN  Trim(SubSeq([i \in 1..Len(d) |->
                              (d[i] \div (2 ^ r)) + (Limb(d, i + 1) % (2 ^ r)) * (2 ^ (LimbBits - r))],
                           1, Len(d)))

\* a mod 2^n
NatLow(a, n) ==
  LET keep == n \div LimbBits
      r == n % LimbBits
  IN  IF keep >= Len(a) THEN a
      ELSE Trim(SubSeq(a, 1, keep) \o <<a[keep + 1] % (2 ^ r)>>)

RECURSIVE IntBits(_)
IntBits(i) == IF i = 0 THEN 0 ELSE 1 + IntBits(i \div 2)

\* Number of significant bits of a
BitLen(a) == IF a = <<>> THEN 0 ELSE LimbBits * (Len(a) - 1) + IntBits(a[Len(a)])

NatOdd(a) == a # <<>> /\ a[1] % 2 = 1

\* A binary64 value is [sign, exp, man]: (-1)^sign * man * 2^exp with the
\* significand man a natural number below 2^53.  A normal number has man >=
\* 2^52; a subnormal has exp = MinExp; a zero has man = 0 and exp = MinExp.
\* Infinity has exp = MaxExp + 1 and NaN exp = MaxExp + 2, both with man = 0.
Binary64 == [precision |-> 53, emin |-> -1022, emax |-> 1023]

Precision == Binary64.precision

MinExp == Binary64.emin - (Precision - 1)

MaxExp == Binary64.emax - (Precision - 1)

FZero(sign) == [sign |-> sign, exp |-> MinExp, man |-> <<>>]

FInf(sign) == [sign |-> sign, exp |-> MaxExp + 1, man |-> <<>>]

FNaN == [sign |-> 0, exp |-> MaxExp + 2, man |-> <<>>]

IsNaN(a) == a.exp = MaxExp + 2

IsInf(a) == a.exp = MaxExp + 1

IsZero(a) == a.man = <<>> /\ a.exp = MinExp

\* The value (-1)^sign * man * 2^exp for man below 2^53 in canonical form
Finite(sign, exp, man) ==
  IF man = <<>> THEN FZero(sign)
  ELSE IF exp > MaxExp THEN FInf(sign)
  ELSE [sign |-> sign, exp |-> exp, man |-> man]

\* The same for man up to 2^53, which takes one more binary place
Renormalise(sign, exp, man) ==
  IF BitLen(man) > Precision THEN Finite(sign, exp + 1, NatShr(man, 1))
  ELSE Finite(sign, exp, man)

\* Ties to even: kept are the significant bits that stay, dropped is -1, 0 or
\* 1 as the bits that went are below, equal to or above half a unit of kept.
RoundKept(sign, exp, kept, dropped, sticky) ==
  Renormalise(sign, exp,
              IF dropped > 0 \/ (dropped = 0 /\ (sticky \/ NatOdd(kept)))
                THEN NatAdd(kept, <<1>>) ELSE kept)

\* Number of low bits an n-bit significand at exponent e has to lose
DropBits(n, e) == IF e + n - Precision < MinExp THEN MinExp - e ELSE n - Precision

RoundDrop(sign, m, e, sticky, shift) ==
  IF shift <= 0 THEN Finite(sign, e + shift, NatShl(m, -shift))
  ELSE RoundKept(sign, e + shift, NatShr(m, shift),
                 NatCmp(NatLow(m, shift), NatShl(<<1>>, shift - 1)), sticky)

\* Round to nearest, ties to even: the binary64 value of (-1)^sign * m * 2^e,
\* where sticky says that the exact value lies strictly between m * 2^e and
\* (m + 1) * 2^e (then m has more than Precision bits).
Round(sign, m, e, sticky) == RoundDrop(sign, m, e, sticky, DropBits(BitLen(m), e))

\* The binary64 value of the integer i
FromInt(i) == Round(IF i < 0 THEN 1 ELSE 0, NatOf(IF i < 0 THEN -i ELSE i), 0, FALSE)

FNeg(a) == IF IsNaN(a) THEN a ELSE [a EXCEPT !.sign = 1 - a.sign]

FAbs(a) == IF IsNaN(a) THEN a ELSE [a EXCEPT !.sign = 0]

\* Operands more than FarApart binary places apart: the smaller one is
\* below a quarter of the last place of the larger, which is the sum.
FarApart == 2 * Precision + LimbBits

\* Sign and magnitude of (-1)^sa * ma + (-1)^sb * mb, where c compares ma to mb
SumSign(sa, sb, c) == IF sa = sb \/ c > 0 THEN sa ELSE IF c < 0 THEN sb ELSE 0

SumMagnitude(sa, ma, sb, mb, c) ==
  IF sa = sb THEN NatAdd(ma, mb)
  ELSE IF c >= 0 THEN NatSub(ma, mb)
  ELSE NatSub(mb, ma)

AddCompared(sa, ma, sb, mb, e, c) ==
  Round(SumSign(sa, sb, c), SumMagnitude(sa, ma, sb, mb, c), e, FALSE)

AddAligned(sa, ma, sb, mb, e) == AddCompared(sa, ma, sb, mb, e, NatCmp(ma, mb))

\* a + b for finite nonzero a, b at most FarApart places apart; e is the
\* smaller exponent
AddFinite(a, b, e) ==
  AddAligned(a.sign, NatShl(a.man, a.exp - e), b.sign, NatShl(b.man, b.exp - e), e)

FAdd(a, b) ==
  IF IsNaN(a) \/ IsNaN(b) THEN FNaN
  ELSE IF IsInf(a) THEN (IF IsInf(b) /\ a.sign # b.sign THEN FNaN ELSE a)
  ELSE IF IsInf(b) THEN b
  ELSE IF IsZero(a) /\ IsZero(b) THEN FZero(IF a.sign = b.sign THEN a.sign ELSE 0)
  ELSE IF IsZero(a) THEN b
  ELSE IF IsZero(b) THEN a
  ELSE IF a.exp - b.exp > FarApart THEN a
  ELSE IF b.exp - a.exp > FarApart THEN b
  ELSE AddFinite(a, b, IF a.exp < b.exp THEN a.exp ELSE b.exp)

FSub(a, b) == FAdd(a, FNeg(b))

FMul(a, b) ==
  IF IsNaN(a) \/ IsNaN(b) THEN FNaN
  ELSE IF IsInf(a) \/ IsInf(b)
    THEN (IF IsZero(a) \/ IsZero(b) THEN FNaN ELSE FInf((a.sign + b.sign) % 2))
  ELSE IF IsZero(a) \/ IsZero(b) THEN FZero((a.sign + b.sign) % 2)
  ELSE Round((a.sign + b.sign) % 2, NatMul(a.man, b.man), a.exp + b.exp, FALSE)

\* steps more binary digits of the quotient digit * 2^steps + r / d (r < d)
RECURSIVE DivDigits(_, _, _, _)
DivDigits(r, d, digit, steps) ==
  IF steps = 0 THEN [digit |-> digit, r |-> r]
  ELSE IF NatCmp(NatScale(r, 2), d) >= 0
    THEN DivDigits(NatSub(NatScale(r, 2), d), d, 2 * digit + 1, steps - 1)
  ELSE DivDigits(NatScale(r, 2), d, 2 * digit, steps - 1)

\* The quotient limbs after first, least significant first, and the last
\* remainder, for limbs limbs in all
RECURSIVE DivLimbs(_, _, _)
DivAfter(first, rest) == [q |-> rest.q \o <<first.digit>>, r |-> rest.r]

DivNext(first, d, limbs) == DivAfter(first, DivLimbs(first.r, d, limbs - 1))

\* limbs limbs of the quotient of r / d (r < d) and the last remainder
DivLimbs(r, d, limbs) ==
  IF limbs = 0 THEN [q |-> <<>>, r |-> r]
  ELSE DivNext(DivDigits(r, d, 0, LimbBits), d, limbs)

\* The quotient with 4 limbs after the binary point, ge its integer part
DivRound(sign, e, ge, tail) ==
  Round(sign, Trim(tail.q \o <<IF ge THEN 1 ELSE 0>>), e, tail.r # <<>>)

DivCompared(sign, n, d, e, ge) ==
  DivRound(sign, e, ge, DivLimbs(IF ge THEN NatSub(n, d) ELSE n, d, 4))

\* a / b for finite nonzero a, b whose significands take sa and sb more
\* places to fill Precision bits
DivFinite(a, b, sa, sb) ==
  DivCompared((a.sign + b.sign) % 2, NatShl(a.man, sa), NatShl(b.man, sb),
              (a.exp - sa) - (b.exp - sb) - 4 * LimbBits,
              NatCmp(NatShl(a.man, sa), NatShl(b.man, sb)) >= 0)

FDiv(a, b) ==
  IF IsNaN(a) \/ IsNaN(b) THEN FNaN
  ELSE IF IsInf(a) THEN (IF IsInf(b) THEN FNaN ELSE FInf((a.sign + b.sign) % 2))
  ELSE IF IsInf(b) THEN FZero((a.sign + b.sign) % 2)
  ELSE IF IsZero(b) THEN (IF IsZero(a) THEN FNaN ELSE FInf((a.sign + b.sign) % 2))
  ELSE IF IsZero(a) THEN FZero((a.sign + b.sign) % 2)
  ELSE DivFinite(a, b, Precision - BitLen(a.man), Precision - BitLen(b.man))

\* |a| < |b| for values that are not NaN
MagnitudeBelow(a, b) == a.exp < b.exp \/ (a.exp = b.exp /\ NatCmp(a.man, b.man) < 0)

\* a < b
FLt(a, b) ==
  IF IsNaN(a) \/ IsNaN(b) THEN FALSE
  ELSE IF IsZero(a) /\ IsZero(b) THEN FALSE
  ELSE IF a.sign # b.sign THEN a.sign = 1
  ELSE IF a.sign = 0 THEN MagnitudeBelow(a, b)
  ELSE MagnitudeBelow(b, a)

\* ------------------------------------------------------------------------
\* Numbers: the operators of the source (+, -, *, /, unary -, Math.abs, <)
\* ------------------------------------------------------------------------

\* The arithmetic a behaviour is evaluated in: "binary64" is that of the
\* JavaScript engine, "rational" the exact arithmetic of the formulas.
VARIABLE numbers

Exact == numbers = "rational"

\* The number written i in the source or typed into a field
Q(i) == IF Exact THEN [n |-> i, d |-> 1] ELSE FromInt(i)

\* The number written as the decimal fraction i / j (j > 0)
Frac(i, j) == IF Exact THEN QFrac(i, j) ELSE FDiv(FromInt(i), FromInt(j))

Zero == Q(0)

Add(a, b) == IF Exact THEN QAdd(a, b) ELSE FAdd(a, b)

Sub(a, b) == IF Exact THEN QSub(a, b) ELSE FSub(a, b)

Mul(a, b) == IF Exact THEN QMul(a, b) ELSE FMul(a, b)

Div(a, b) == IF Exact THEN QDiv(a, b) ELSE FDiv(a, b)

Neg(a) == IF Exact THEN QNeg(a) ELSE FNeg(a)

Abs(a) == IF Exact THEN QAbs(a) ELSE FAbs(a)

Lt(a, b) == IF Exact THEN QLt(a, b) ELSE FLt(a, b)

Le(a, b) == IF Exact THEN ~QLt(b, a) ELSE (FLt(a, b) \/ (~FLt(b, a) /\ ~IsNaN(a) /\ ~IsNaN(b)))

Gt(a, b) == Lt(b, a)

Ge(a, b) == Le(b, a)

\* ------------------------------------------------------------------------
\* Arrays
\* ------------------------------------------------------------------------

\* The array <<Op(1), ..., Op(n)>> (Array.from, map), every element computed once.
SeqOf(n, Op(_)) == SubSeq([i \in 1..n |-> Op(i)], 1, n)

MinOf(S) == CHOOSE i \in S : \A j \in S : i <= j

\* values.reduce((sum, v) => sum + v, 0) over the first k values
RECURSIVE SumUpTo(_, _)
SumUpTo(values, k) == IF k = 0 THEN Zero ELSE Add(SumUpTo(values, k - 1), values[k])

SumOf(values) == SumUpTo(values, Len(values))

\* ------------------------------------------------------------------------
\* Mesh builder
\* ------------------------------------------------------------------------

RECURSIVE SortAsc(_)
SortAsc(S) ==
  IF S = {} THEN <<>>
  ELSE LET m == CHOOSE v \in S : \A w \in S : ~Lt(w, v)
       IN  <<m>> \o SortAsc(S \ {m})

uniqueSorted(values) == SortAsc({values[i] : i \in DOMAIN values})

basePositions(lengthMm, supports, pointLoads, udls) ==
  <<Zero, lengthMm>>
    \o SeqOf(Len(supports), LAMBDA i : supports[i].positionMm)
    \o SeqOf(Len(pointLoads), LAMBDA i : pointLoads[i].positionMm)
    \o SeqOf(2 * Len(udls), LAMBDA i : IF i % 2 = 1 THEN udls[(i + 1) \div 2].startMm
                                                   ELSE udls[i \div 2].endMm)

\* A variant in which the last support at a position wins
supportTypeAtLast(supports, position) ==
  LET found == {i \in DOMAIN supports : supports[i].positionMm = position}
  IN  IF found = {} THEN "free"
      ELSE supports[CHOOSE i \in found : \A j \in found : j <= i].type

supportTypeAt(supports, position) ==
  LET found == {i \in DOMAIN supports : supports[i].positionMm = position}
  IN  IF found = {} THEN "free" ELSE supports[MinOf(found)].type

buildNodes(lengthMm, supports, pointLoads, udls) ==
  LET base == basePositions(lengthMm, supports, pointLoads, udls)
      positions == uniqueSorted(SelectSeq(base, LAMBDA pos : Ge(pos, Zero) /\ Le(pos, lengthMm)))
  IN  SeqOf(Len(positions),
            LAMBDA i : [x |-> positions[i], supportType |-> supportTypeAt(supports, positions[i])])

\* ------------------------------------------------------------------------
\* Element assembler
\* ------------------------------------------------------------------------

RECURSIVE nodeLoadsAfter(_, _, _)
nodeLoadsAfter(nodes, pointLoads, k) ==
  IF k = 0 THEN SeqOf(Len(nodes), LAMBDA i : Zero)
  ELSE LET prev == nodeLoadsAfter(nodes, pointLoads, k - 1)
           load == pointLoads[k]
           found == {i \in DOMAIN nodes : nodes[i].x = load.positionMm}
       IN  IF found = {} THEN prev
           ELSE [prev EXCEPT ![MinOf(found)] = Add(@, Mul(Neg(load.magnitudeKn), Q(1000)))]

mapLoadsToNodes(nodes, pointLoads) == nodeLoadsAfter(nodes, pointLoads, Len(pointLoads))

getElementUdl(udls, xStart, xEnd) ==
  LET mid == Div(Add(xStart, xEnd), Q(2))
      inside == SelectSeq(udls, LAMBDA udl : Ge(mid, udl.startMm) /\ Le(mid, udl.endMm))
  IN  SumOf(SeqOf(Len(inside), LAMBDA i : inside[i].magnitudeKnPerM))

\* A variant whose stiffness factor is EI / L^2
elementOfSquare(nodes, i, EI, udls) ==
  LET x1 == nodes[i].x
      x2 == nodes[i + 1].x
      L == Sub(x2, x1)
      wNPerMm == Neg(getElementUdl(udls, x1, x2))
      L2 == Mul(L, L)
      factor == Div(EI, L2)
      sixL == Mul(Q(6), L)
      coeff == << <<Q(12), sixL, Q(-12), sixL>>,
                  <<sixL, Mul(Q(4), L2), Neg(sixL), Mul(Q(2), L2)>>,
                  <<Q(-12), Neg(sixL), Q(12), Neg(sixL)>>,
                  <<sixL, Mul(Q(2), L2), Neg(sixL), Mul(Q(4), L2)>> >>
  IN  [index |-> i,
       length |-> L,
       wNPerMm |-> wNPerMm,
       kLocal |-> SeqOf(4, LAMBDA r : SeqOf(4, LAMBDA c : Mul(coeff[r][c], factor))),
       fFixed |-> << Div(Mul(wNPerMm, L), Q(2)),
                     Div(Mul(wNPerMm, L2), Q(12)),
                     Div(Mul(wNPerMm, L), Q(2)),
                     Div(Neg(Mul(wNPerMm, L2)), Q(12)) >>]

\* The record pushed to elementData for the element between nodes i and i + 1.
elementOf(nodes, i, EI, udls) ==
  LET x1 == nodes[i].x
      x2 == nodes[i + 1].x
      L == Sub(x2, x1)
      wKnPerM == getElementUdl(udls, x1, x2)
      wNPerMm == Neg(wKnPerM)
      L2 == Mul(L, L)
      L3 == Mul(L2, L)
      factor == Div(EI, L3)
      sixL == Mul(Q(6), L)
      coeff == << <<Q(12), sixL, Q(-12), sixL>>,
                  <<sixL, Mul(Q(4), L2), Neg(sixL), Mul(Q(2), L2)>>,
                  <<Q(-12), Neg(sixL), Q(12), Neg(sixL)>>,
                  <<sixL, Mul(Q(2), L2), Neg(sixL), Mul(Q(4), L2)>> >>
  IN  [index |-> i,
       length |-> L,
       wNPerMm |-> wNPerMm,
       kLocal |-> SeqOf(4, LAMBDA r : SeqOf(4, LAMBDA c : Mul(coeff[r][c], factor))),
       fFixed |-> << Div(Mul(wNPerMm, L), Q(2)),
                     Div(Mul(wNPerMm, L2), Q(12)),
                     Div(Mul(wNPerMm, L), Q(2)),
                     Div(Neg(Mul(wNPerMm, L2)), Q(12)) >>]

\* dofMap of the element whose first node is node i
dofMap(i) == <<2 * i - 1, 2 * i, 2 * i + 1, 2 * i + 2>>

scatter(sys, element) ==
  LET base == 2 * element.index - 2
      dof == Len(sys.F)
      In(d) == d > base /\ d <= base + 4
  IN  [K |-> SeqOf(dof, LAMBDA r : SeqOf(dof, LAMBDA c :
                 IF In(r) /\ In(c) THEN Add(sys.K[r][c], element.kLocal[r - base][c - base])
                 ELSE sys.K[r][c])),
       F |-> SeqOf(dof, LAMBDA r : IF In(r) THEN Add(sys.F[r], element.fFixed[r - base])
                                   ELSE sys.F[r]),
       elementData |-> Append(sys.elementData, element)]

RECURSIVE assembleUpTo(_, _, _, _, _)
assembleUpTo(nodes, EI, pointLoads, udls, k) ==
  IF k = 0
  THEN LET dof == Len(nodes) * 2
           nodePointLoads == mapLoadsToNodes(nodes, pointLoads)
       IN  [K |-> SeqOf(dof, LAMBDA r : SeqOf(dof, LAMBDA c : Zero)),
            F |-> SeqOf(dof, LAMBDA d : IF d % 2 = 1 THEN Add(Zero, nodePointLoads[(d + 1) \div 2])
                                        ELSE Zero),
            elementData |-> <<>>]
  ELSE LET prev == assembleUpTo(nodes, EI, pointLoads, udls, k - 1)
           L == Sub(nodes[k + 1].x, nodes[k].x)
       IN  IF Le(L, Zero) THEN prev ELSE scatter(prev, elementOf(nodes, k, EI, udls))

assembleSystem(nodes, youngsModulusMpa, inertiaMm4, pointLoads, udls) ==
  assembleUpTo(nodes, Mul(youngsModulusMpa, inertiaMm4), pointLoads, udls,
               IF Len(nodes) = 0 THEN 0 ELSE Len(nodes) - 1)

\* ------------------------------------------------------------------------
\* Constraint reducer
\* ------------------------------------------------------------------------

\* A variant that also holds the rotation of a pinned node
RECURSIVE constrainedBothUpTo(_, _)
constrainedBothUpTo(nodes, k) ==
  IF k = 0 THEN <<>>
  ELSE LET prev == constrainedBothUpTo(nodes, k - 1)
       IN  IF nodes[k].supportType = "free" THEN prev ELSE prev \o <<2 * k - 1, 2 * k>>

RECURSIVE constrainedUpTo(_, _)
constrainedUpTo(nodes, k) ==
  IF k = 0 THEN <<>>
  ELSE LET prev == constrainedUpTo(nodes, k - 1)
           pinned == IF nodes[k].supportType = "pinned" THEN <<2 * k - 1>> ELSE <<>>
           fixed == IF nodes[k].supportType = "fixed" THEN <<2 * k - 1, 2 * k>> ELSE <<>>
       IN  prev \o pinned \o fixed

Includes(values, v) == \E i \in DOMAIN values : values[i] = v

applyBoundaryConditions(nodes, K, F) ==
  LET constrained == constrainedUpTo(nodes, Len(nodes))
      free == SelectSeq(SeqOf(Len(K), LAMBDA i : i), LAMBDA i : ~Includes(constrained, i))
  IN  [constrained |-> constrained,
       free |-> free,
       Kff |-> SeqOf(Len(free), LAMBDA r : SeqOf(Len(free), LAMBDA c : K[free[r]][free[c]])),
       Ff |-> SeqOf(Len(free), LAMBDA r : F[free[r]])]

\* ------------------------------------------------------------------------
\* Linear solver
\* ------------------------------------------------------------------------

\* The literal 1e-9 of the singularity test
Epsilon == Frac(1, 1000000000)

\* A.map((row) => row.slice()): a new array object with the rows of A
sliceRows(A) == [object |-> "M", rows |-> A]

\* b.slice(): a new array object with the entries of b
slice(b) == [object |-> "x", values |-> b]

\* A variant of the pivot search that compares the entries with their sign
RECURSIVE maxRowSignedUpTo(_, _, _)
maxRowSignedUpTo(M, k, i) ==
  IF i <= k THEN k
  ELSE LET maxRow == maxRowSignedUpTo(M, k, i - 1)
       IN  IF Gt(M[i][k], M[maxRow][k]) THEN i ELSE maxRow

\* maxRow after the inner loop has looked at the rows k + 1 .. i (column k)
RECURSIVE maxRowUpTo(_, _, _)
maxRowUpTo(M, k, i) ==
  IF i <= k THEN k
  ELSE LET maxRow == maxRowUpTo(M, k, i - 1)
       IN  IF Gt(Abs(M[i][k]), Abs(M[maxRow][k])) THEN i ELSE maxRow

swapped(values, i, j) == [values EXCEPT ![i] = values[j], ![j] = values[i]]

\* One pass of the outer loop for pivot column k (1-based) on the rows M and
\* the right-hand side x, once row maxRow is known to hold a usable pivot.
eliminate(M, x, k, maxRow) ==
  LET n == Len(x)
      M1 == swapped(M, k, maxRow)
      x1 == swapped(x, k, maxRow)
      pivot == M1[k][k]
      rowK == SeqOf(n, LAMBDA j : IF j >= k THEN Div(M1[k][j], pivot) ELSE M1[k][j])
      xK == Div(x1[k], pivot)
  IN  [pivot |-> pivot,
       M |-> SeqOf(n, LAMBDA i :
               IF i = k THEN rowK
               ELSE SeqOf(n, LAMBDA j :
                      IF j >= k THEN Sub(M1[i][j], Mul(M1[i][k], rowK[j])) ELSE M1[i][j])),
       x |-> SeqOf(n, LAMBDA i : IF i = k THEN xK ELSE Sub(x1[i], Mul(M1[i][k], xK)))]

\* ------------------------------------------------------------------------
\* Reaction and response evaluator
\* ------------------------------------------------------------------------

\* row.reduce((sum, value, j) => sum + value * u[j], 0)
RECURSIVE dotUpTo(_, _, _)
dotUpTo(row, u, k) ==
  IF k = 0 THEN Zero ELSE Add(dotUpTo(row, u, k - 1), Mul(row[k], u[k]))

dot(row, u) == dotUpTo(row, u, Len(row))

expand(dof, free, freeDisplacements) ==
  SeqOf(dof, LAMBDA d :
    LET at == {i \in DOMAIN free : free[i] = d}
    IN  IF at = {} THEN Zero ELSE freeDisplacements[MinOf(at)])

\* A variant with the sign of the residual reversed: F - K*u
reactionsOfReversed(K, F, displacements) ==
  SeqOf(Len(K), LAMBDA i : Sub(F[i], dot(K[i], displacements)))

reactionsOf(K, F, displacements) ==
  SeqOf(Len(K), LAMBDA i : Sub(dot(K[i], displacements), F[i]))

\* A variant that reads the two reactions of a node from each other's DOF
reactionTableCrossed(nodes, reactions) ==
  LET rows == SeqOf(Len(nodes), LAMBDA i :
                [positionMm |-> nodes[i].x,
                 verticalKn |-> Div(reactions[2 * i], Q(1000)),
                 momentKnM |-> Div(reactions[2 * i - 1], Q(1000000)),
                 type |-> nodes[i].supportType])
  IN  SelectSeq(rows, LAMBDA row : row.type # "free")

reactionTableOf(nodes, reactions) ==
  LET rows == SeqOf(Len(nodes), LAMBDA i :
                [positionMm |-> nodes[i].x,
                 verticalKn |-> Div(reactions[2 * i - 1], Q(1000)),
                 momentKnM |-> Div(reactions[2 * i], Q(1000000)),
                 type |-> nodes[i].supportType])
  IN  SelectSeq(rows, LAMBDA row : row.type # "free")

numPoints == 40

sampleOf(nodes, element, uLocal, endForces, i) ==
  LET length == element.length
      x == Div(Mul(length, Q(i)), Q(numPoints))
      r == Div(x, length)
      rr == Mul(r, r)
      rrr == Mul(rr, r)
      threeRR == Mul(Mul(Q(3), r), r)
      twoRR == Mul(Mul(Q(2), r), r)
      twoRRR == Mul(twoRR, r)
      n1 == Add(Sub(Q(1), threeRR), twoRRR)
      n2 == Mul(length, Add(Sub(r, twoRR), rrr))
      n3 == Sub(threeRR, twoRRR)
      n4 == Mul(length, Add(Mul(Neg(r), r), rrr))
  IN  [x |-> Add(nodes[element.index].x, x),
       shear |-> Sub(endForces[1], Mul(element.wNPerMm, x)),
       moment |-> Sub(Add(endForces[2], Mul(endForces[1], x)),
                      Div(Mul(Mul(element.wNPerMm, x), x), Q(2))),
       deflection |-> Add(Add(Add(Mul(n1, uLocal[1]), Mul(n2, uLocal[2])),
                              Mul(n3, uLocal[3])), Mul(n4, uLocal[4]))]

\* A variant whose loop stops one sample short of the element's end
elementSamplesOpen(nodes, element, displacements) ==
  LET map == dofMap(element.index)
      uLocal == SeqOf(4, LAMBDA c : displacements[map[c]])
      endForces == SeqOf(4, LAMBDA r : Sub(dot(element.kLocal[r], uLocal), element.fFixed[r]))
  IN  SeqOf(numPoints, LAMBDA i : sampleOf(nodes, element, uLocal, endForces, i - 1))

elementSamples(nodes, element, displacements) ==
  LET map == dofMap(element.index)
      uLocal == SeqOf(4, LAMBDA c : displacements[map[c]])
      endForces == SeqOf(4, LAMBDA r : Sub(dot(element.kLocal[r], uLocal), element.fFixed[r]))
  IN  SeqOf(numPoints + 1, LAMBDA i : sampleOf(nodes, element, uLocal, endForces, i - 1))

RECURSIVE samplesUpTo(_, _, _, _)
samplesUpTo(nodes, elementData, displacements, k) ==
  IF k = 0 THEN <<>>
  ELSE samplesUpTo(nodes, elementData, displacements, k - 1)
         \o elementSamples(nodes, elementData[k], displacements)

computeDiagrams(nodes, elementData, displacements) ==
  samplesUpTo(nodes, elementData, displacements, Len(elementData))

\* ------------------------------------------------------------------------
\* State
\* ------------------------------------------------------------------------

VARIABLES
  lengthMm, widthMm, depthMm, youngsModulusMpa,  \* member properties
  supports, pointLoads, udls,                    \* the three editable lists
  pc,                                            \* the statement about to run
  nodes,                                         \* result of buildNodes
  sys,                                           \* result of assembleSystem
  bc,                                            \* result of applyBoundaryConditions
  A, b,                                          \* arguments of solveLinearSystem
  M, x, k, pivot,                                \* locals of solveLinearSystem
  freeDisplacements,                             \* its return value
  displacements, reactions,                      \* locals of the analysis
  analysis                                       \* the value of the analysis

inputs == <<numbers, lengthMm, widthMm, depthMm, youngsModulusMpa, supports, pointLoads, udls>>

solver == <<A, b, M, x, k, pivot, freeDisplacements>>

vars == <<inputs, pc, nodes, sys, bc, solver, displacements, reactions, analysis>>

Null == [isNull |-> TRUE, values |-> <<>>]

Pending == [pending |-> TRUE]

UnstableMessage ==
  "The system is unstable. Add or adjust supports so at least one vertical and one rotational restraint exists."

inertiaMm4 == Div(Mul(widthMm, Mul(Mul(depthMm, depthMm), depthMm)), Q(12))

\* ------------------------------------------------------------------------
\* Bounded inputs
\* ------------------------------------------------------------------------

MaxLen == 2

MaxSupports == 2

MaxPointLoads == 1

MaxUdls == 1

SeqsUpTo(S, n) == UNION {[1..m -> S] : m \in 0..n}

Positions == {Q(i) : i \in 0..MaxLen}

Lengths == {Q(i) : i \in 1..MaxLen}

SupportTypes == {"free", "pinned", "fixed"}

Supports == [positionMm : Positions, type : SupportTypes]

PointLoads == [positionMm : Positions, magnitudeKn : {Frac(3, 1000)}]

Udls == {u \in [startMm : Positions, endMm : Positions, magnitudeKnPerM : {Q(2)}] :
           Le(u.startMm, u.endMm)}

NotStarted ==
  /\ nodes = <<>>
  /\ sys = [K |-> <<>>, F |-> <<>>, elementData |-> <<>>]
  /\ bc = [constrained |-> <<>>, free |-> <<>>, Kff |-> <<>>, Ff |-> <<>>]
  /\ A = <<>> /\ b = <<>>
  /\ M = sliceRows(<<>>) /\ x = slice(<<>>) /\ k = 0 /\ pivot = Zero
  /\ freeDisplacements = Null
  /\ displacements = <<>> /\ reactions = <<>>
  /\ analysis = Pending

Init ==
  /\ numbers = "rational"
  /\ lengthMm \in Lengths
  /\ widthMm = Q(12) /\ depthMm = Q(1) /\ youngsModulusMpa = Q(1)
  /\ supports \in SeqsUpTo(Supports, MaxSupports)
  /\ pointLoads \in SeqsUpTo(PointLoads, MaxPointLoads)
  /\ udls \in SeqsUpTo(Udls, MaxUdls)
  /\ pc = "buildNodes"
  /\ NotStarted

\* ------------------------------------------------------------------------
\* The analysis, statement by statement
\* ------------------------------------------------------------------------

BuildNodes ==
  /\ pc = "buildNodes"
  /\ nodes' = buildNodes(lengthMm, supports, pointLoads, udls)
  /\ pc' = "assembleSystem"
  /\ UNCHANGED <<inputs, sys, bc, solver, displacements, reactions, analysis>>

AssembleSystem ==
  /\ pc = "assembleSystem"
  /\ sys' = assembleSystem(nodes, youngsModulusMpa, inertiaMm4, pointLoads, udls)
  /\ pc' = "applyBoundaryConditions"
  /\ UNCHANGED <<inputs, nodes, bc, solver, displacements, reactions, analysis>>

ApplyBoundaryConditions ==
  /\ pc = "applyBoundaryConditions"
  /\ bc' = applyBoundaryConditions(nodes, sys.K, sys.F)
  /\ A' = bc'.Kff
  /\ b' = bc'.Ff
  /\ pc' = "solveLinearSystem"
  /\ UNCHANGED <<inputs, nodes, sys, M, x, k, pivot, freeDisplacements,
                 displacements, reactions, analysis>>

SolveEnter ==
  /\ pc = "solveLinearSystem"
  /\ M' = sliceRows(A)
  /\ x' = slice(b)
  /\ k' = 0
  /\ pc' = "eliminate"
  /\ UNCHANGED <<inputs, nodes, sys, bc, A, b, pivot, freeDisplacements,
                 displacements, reactions, analysis>>

\* The row the pivot search of pass k + 1 ends on
maxRow == maxRowUpTo(M.rows, k + 1, Len(b))

SolveSingular ==
  /\ pc = "eliminate"
  /\ k < Len(b)
  /\ Lt(Abs(M.rows[maxRow][k + 1]), Epsilon)
  /\ freeDisplacements' = Null
  /\ pc' = "returned"
  /\ UNCHANGED <<inputs, nodes, sys, bc, A, b, M, x, k, pivot,
                 displacements, reactions, analysis>>

SolveEliminate ==
  /\ pc = "eliminate"
  /\ k < Len(b)
  /\ ~Lt(Abs(M.rows[maxRow][k + 1]), Epsilon)
  /\ LET next == eliminate(M.rows, x.values, k + 1, maxRow)
     IN  /\ M' = [M EXCEPT !.rows = next.M]
         /\ x' = [x EXCEPT !.values = next.x]
         /\ A' = IF M.object = "A" THEN next.M ELSE A
         /\ b' = IF x.object = "b" THEN next.x ELSE b
         /\ pivot' = next.pivot
  /\ k' = k + 1
  /\ UNCHANGED <<inputs, pc, nodes, sys, bc, freeDisplacements,
                 displacements, reactions, analysis>>

SolveReturn ==
  /\ pc = "eliminate"
  /\ k >= Len(b)
  /\ freeDisplacements' = [isNull |-> FALSE, values |-> x.values]
  /\ pc' = "returned"
  /\ UNCHANGED <<inputs, nodes, sys, bc, A, b, M, x, k, pivot,
                 displacements, reactions, analysis>>

ReportUnstable ==
  /\ pc = "returned"
  /\ freeDisplacements.isNull
  /\ analysis' = [error |-> UnstableMessage]
  /\ pc' = "done"
  /\ UNCHANGED <<inputs, nodes, sys, bc, solver, displacements, reactions>>

Evaluate ==
  /\ pc = "returned"
  /\ ~freeDisplacements.isNull
  /\ displacements' = expand(Len(sys.K), bc.free, freeDisplacements.values)
  /\ reactions' = reactionsOf(sys.K, sys.F, displacements')
  /\ analysis' = [nodes |-> nodes,
                  reactionTable |-> reactionTableOf(nodes, reactions'),
                  diagrams |-> computeDiagrams(nodes, sys.elementData, displacements')]
  /\ pc' = "done"
  /\ UNCHANGED <<inputs, nodes, sys, bc, solver>>

Next ==
  \/ BuildNodes
  \/ AssembleSystem
  \/ ApplyBoundaryConditions
  \/ SolveEnter
  \/ SolveSingular
  \/ SolveEliminate
  \/ SolveReturn
  \/ ReportUnstable
  \/ Evaluate

Spec == Init /\ [][Next]_vars

\* ------------------------------------------------------------------------
\* Properties of the analysis
\* ------------------------------------------------------------------------

Done == pc = "done"

Succeeded == Done /\ "reactionTable" \in DOMAIN analysis

Failed == Done /\ analysis = [error |-> UnstableMessage]

InRange(position) == Ge(position, Zero) /\ Le(position, lengthMm)

\* length > 0, every position within [0, length], 0 <= start <= end <= length
ValidConfiguration ==
  /\ Gt(lengthMm, Zero)
  /\ \A i \in DOMAIN supports : InRange(supports[i].positionMm)
  /\ \A i \in DOMAIN pointLoads : InRange(pointLoads[i].positionMm)
  /\ \A i \in DOMAIN udls :
       /\ InRange(udls[i].startMm) /\ InRange(udls[i].endMm)
       /\ Le(udls[i].startMm, udls[i].endMm)

\* Sum of Term(i) over the finite set S of indices (exact arithmetic)
RECURSIVE Total(_, _)
Total(S, terms) ==
  IF S = {} THEN Zero
  ELSE LET i == CHOOSE j \in S : TRUE IN Add(terms[i], Total(S \ {i}, terms))

AppliedLoadKn ==
  Add(Total(DOMAIN pointLoads, [i \in DOMAIN pointLoads |-> pointLoads[i].magnitudeKn]),
      Total(DOMAIN udls, [i \in DOMAIN udls |->
              Mul(udls[i].magnitudeKnPerM,
                  Div(Sub(udls[i].endMm, udls[i].startMm), Q(1000)))]))

\* C2: on a valid configuration whose analysis succeeds, the vertical
\* reactions of the reaction table add up to the point-load magnitudes (kN)
\* plus, for every UDL, its intensity (kN/m) times its length in metres.
C2_VerticalEquilibrium ==
  (Succeeded /\ ValidConfiguration) =>
    LET rows == analysis.reactionTable
    IN  Total(DOMAIN rows, [i \in DOMAIN rows |-> rows[i].verticalKn]) = AppliedLoadKn

\* A successful analysis of a valid beam carrying a point load and a UDL of
\* positive length on at least two supports.
C2_Witness ==
  /\ Succeeded /\ ValidConfiguration
  /\ Len(analysis.reactionTable) >= 2
  /\ pointLoads # <<>>
  /\ \E i \in DOMAIN udls : Lt(udls[i].startMm, udls[i].endMm)
  /\ AppliedLoadKn # Zero

\* The samples of element e are the entries FirstSample(e) .. LastSample(e).
FirstSample(e) == (numPoints + 1) * (e - 1) + 1

LastSample(e) == (numPoints + 1) * e

InteriorNodes == {j \in DOMAIN nodes : 1 < j /\ j < Len(nodes)}

Loaded(j) == \E i \in DOMAIN pointLoads : pointLoads[i].positionMm = nodes[j].x

\* C3: on a successful analysis, at every interior mesh node without a point
\* load the moment of the last sample of the element ending there equals the
\* moment of the first sample of the element starting there.  The claim is
\* stated here for the nodes where no reaction can act either (free nodes):
\* the moment diagram of a beam has no jump there.
C3_MomentContinuity ==
  Succeeded =>
    \A j \in InteriorNodes :
      (~Loaded(j) /\ nodes[j].supportType = "free") =>
        analysis.diagrams[LastSample(j - 1)].moment = analysis.diagrams[FirstSample(j)].moment

\* C7: the reaction table of a successful analysis has one row per pinned or
\* fixed node and none for a free node, in ascending position order; the row
\* of node i carries the node's position and kind, the vertical reaction
\* r[2i] / 1000 and the moment reaction r[2i+1] / 1e6, where r = K u - F.
Supported == {i \in DOMAIN nodes : nodes[i].supportType \in {"pinned", "fixed"}}

\* The j-th smallest element of the set S of integers
RECURSIVE Nth(_, _)
Nth(S, j) == IF j = 1 THEN MinOf(S) ELSE Nth(S \ {MinOf(S)}, j - 1)

Residual(d) ==
  Sub(Total(DOMAIN displacements, [j \in DOMAIN displacements |->
              Mul(sys.K[d][j], displacements[j])]),
      sys.F[d])

C7_ReactionTable ==
  Succeeded =>
    LET rows == analysis.reactionTable
    IN  /\ Len(rows) = Cardinality(Supported)
        /\ \A i \in DOMAIN nodes : nodes[i].supportType = "free" => i \notin Supported
        /\ \A j \in DOMAIN rows :
             LET i == Nth(Supported, j)
             IN  /\ rows[j].positionMm = nodes[i].x
                 /\ rows[j].type = nodes[i].supportType
                 /\ rows[j].verticalKn = Div(Residual(2 * i - 1), Q(1000))
                 /\ rows[j].momentKnM = Div(Residual(2 * i), Q(1000000))
        /\ \A j \in DOMAIN rows : j > 1 => Lt(rows[j - 1].positionMm, rows[j].positionMm)

\* A successful analysis with a free node between a pinned and a fixed one
\* and a non-zero moment reaction.
C7_Witness ==
  /\ Succeeded
  /\ Len(nodes) = 3
  /\ nodes[1].supportType = "pinned"
  /\ nodes[2].supportType = "free"
  /\ nodes[3].supportType = "fixed"
  /\ analysis.reactionTable[2].momentKnM # Zero
  /\ analysis.reactionTable[1].verticalKn # Zero

Pinned == {i \in DOMAIN nodes : nodes[i].supportType = "pinned"}

Fixed == {i \in DOMAIN nodes : nodes[i].supportType = "fixed"}

C1_UnstableReported ==
  (Done /\ Gt(lengthMm, Zero) /\ Fixed = {} /\ Cardinality(Pinned) <= 1) => Failed

\* ------------------------------------------------------------------------
\* The mesh builder on its own
\* ------------------------------------------------------------------------

MeshPositions == {Q(i) : i \in (-1)..(MaxLen + 1)}

InitMesh ==
  /\ numbers = "rational"
  /\ lengthMm \in Lengths
  /\ widthMm = Q(12) /\ depthMm = Q(1) /\ youngsModulusMpa = Q(1)
  /\ supports \in SeqsUpTo([positionMm : MeshPositions, type : SupportTypes], MaxSupports)
  /\ pointLoads \in SeqsUpTo([positionMm : MeshPositions, magnitudeKn : {Frac(3, 1000)}],
                             MaxPointLoads)
  /\ udls \in SeqsUpTo([startMm : MeshPositions, endMm : MeshPositions,
                        magnitudeKnPerM : {Q(2)}], MaxUdls)
  /\ pc = "buildNodes"
  /\ NotStarted

NextMesh == BuildNodes

SpecMesh == InitMesh /\ [][NextMesh]_vars

Candidates ==
  {Zero, lengthMm}
    \cup {supports[i].positionMm : i \in DOMAIN supports}
    \cup {pointLoads[i].positionMm : i \in DOMAIN pointLoads}
    \cup {udls[i].startMm : i \in DOMAIN udls}
    \cup {udls[i].endMm : i \in DOMAIN udls}

\* C6: for a positive length, buildNodes returns one node for every position
\* of {0, length}, the supports, the point loads and the UDL ends that lies
\* in [0, length], in strictly ascending order (first node at 0, last at the
\* length, at least two nodes); the kind of a node is that of the first
\* support, in input order, at its position, and free when there is none.
C6_BuildNodes ==
  (pc = "assembleSystem" /\ Gt(lengthMm, Zero)) =>
    /\ {nodes[i].x : i \in DOMAIN nodes} = {c \in Candidates : InRange(c)}
    /\ \A i \in DOMAIN nodes : i > 1 => Lt(nodes[i - 1].x, nodes[i].x)
    /\ Len(nodes) >= 2
    /\ nodes[1].x = Zero
    /\ nodes[Len(nodes)].x = lengthMm
    /\ \A i \in DOMAIN nodes :
         LET at == {j \in DOMAIN supports : supports[j].positionMm = nodes[i].x}
         IN  nodes[i].supportType =
               IF at = {} THEN "free"
               ELSE supports[CHOOSE j \in at : \A h \in at : j <= h].type

\* Two supports of different kinds at one interior position, a candidate
\* beyond the length and one below 0.
C6_Witness ==
  /\ pc = "assembleSystem"
  /\ Len(supports) = 2
  /\ supports[1].positionMm = supports[2].positionMm
  /\ supports[1].type = "pinned" /\ supports[2].type = "fixed"
  /\ Lt(Zero, supports[1].positionMm) /\ Lt(supports[1].positionMm, lengthMm)
  /\ \E i \in DOMAIN pointLoads : Gt(pointLoads[i].positionMm, lengthMm)
  /\ \E i \in DOMAIN udls : Lt(udls[i].startMm, Zero)
  /\ Len(nodes) = 3

\* ------------------------------------------------------------------------
\* The constraint reducer on its own
\* ------------------------------------------------------------------------

MaxNodes == 4

\* A matrix and a vector whose entries are pairwise different
TestMatrix(dof) == SeqOf(dof, LAMBDA r : SeqOf(dof, LAMBDA c : Q(100 * r + c)))

TestVector(dof) == SeqOf(dof, LAMBDA r : Q(-r))

InitBC ==
  /\ numbers = "rational"
  /\ lengthMm = Q(MaxNodes)
  /\ widthMm = Q(12) /\ depthMm = Q(1) /\ youngsModulusMpa = Q(1)
  /\ supports = <<>> /\ pointLoads = <<>> /\ udls = <<>>
  /\ \E n \in 0..MaxNodes : \E kinds \in [1..n -> SupportTypes] :
       /\ nodes = SeqOf(n, LAMBDA i : [x |-> Q(i - 1), supportType |-> kinds[i]])
       /\ sys = [K |-> TestMatrix(2 * n), F |-> TestVector(2 * n), elementData |-> <<>>]
  /\ pc = "applyBoundaryConditions"
  /\ bc = [constrained |-> <<>>, free |-> <<>>, Kff |-> <<>>, Ff |-> <<>>]
  /\ A = <<>> /\ b = <<>>
  /\ M = sliceRows(<<>>) /\ x = slice(<<>>) /\ k = 0 /\ pivot = Zero
  /\ freeDisplacements = Null
  /\ displacements = <<>> /\ reactions = <<>>
  /\ analysis = Pending

NextBC == ApplyBoundaryConditions

SpecBC == InitBC /\ [][NextBC]_vars

Elements(values) == {values[i] : i \in DOMAIN values}

\* C9: a pinned node i constrains DOF 2i only, a fixed node DOFs 2i and 2i+1,
\* a free node none; the constrained and the free list are disjoint and hold
\* every DOF exactly once between them, the free list ascending; Kff and Ff
\* are the entries of K and F at the free rows and columns in that order (the
\* whole of K and F when nothing is constrained).
C9_Partition ==
  pc = "solveLinearSystem" =>
    LET dofs == 1..(2 * Len(nodes))
        vertical == {2 * i - 1 : i \in {j \in DOMAIN nodes : nodes[j].supportType # "free"}}
        rotation == {2 * i : i \in {j \in DOMAIN nodes : nodes[j].supportType = "fixed"}}
    IN  /\ Elements(bc.constrained) = vertical \cup rotation
        /\ Elements(bc.constrained) \cap Elements(bc.free) = {}
        /\ Elements(bc.constrained) \cup Elements(bc.free) = dofs
        /\ Len(bc.constrained) + Len(bc.free) = 2 * Len(nodes)
        /\ \A i \in DOMAIN bc.free : i > 1 => bc.free[i - 1] < bc.free[i]
        /\ Len(bc.Kff) = Len(bc.free) /\ Len(bc.Ff) = Len(bc.free)
        /\ \A r \in DOMAIN bc.free :
             /\ bc.Ff[r] = sys.F[bc.free[r]]
             /\ Len(bc.Kff[r]) = Len(bc.free)
             /\ \A c \in DOMAIN bc.free : bc.Kff[r][c] = sys.K[bc.free[r]][bc.free[c]]
        /\ bc.constrained = <<>> => (bc.Kff = sys.K /\ bc.Ff = sys.F)

\* A free node between a fixed and a pinned node, reduced.
C9_Witness ==
  /\ pc = "solveLinearSystem"
  /\ Len(nodes) = 3
  /\ nodes[1].supportType = "fixed"
  /\ nodes[2].supportType = "free"
  /\ nodes[3].supportType = "pinned"
  /\ bc.free = <<3, 4, 6>>

\* ------------------------------------------------------------------------
\* The linear solver on its own
\* ------------------------------------------------------------------------

MaxDim == 3

\* Half of the singularity threshold
Tiny == Frac(1, 2000000000)

Entries == {Q(-2), Zero, Q(1)}

\* Systems whose pivots lie just below, at and just above the threshold
ThresholdSystems ==
  {[A |-> <<<<Tiny>>>>, b |-> <<Q(1)>>],
   [A |-> <<<<Neg(Tiny)>>>>, b |-> <<Q(1)>>],
   [A |-> <<<<Epsilon>>>>, b |-> <<Q(1)>>],
   [A |-> <<<<Neg(Epsilon)>>>>, b |-> <<Q(-2)>>],
   [A |-> <<<<Q(1), Q(1)>>, <<Q(1), Add(Q(1), Tiny)>>>>, b |-> <<Q(1), Q(1)>>],
   [A |-> <<<<Q(1), Q(1)>>, <<Q(1), Add(Q(1), Epsilon)>>>>, b |-> <<Q(1), Q(1)>>],
   [A |-> <<<<Tiny, Q(1)>>, <<Neg(Tiny), Q(-2)>>>>, b |-> <<Q(1), Q(1)>>]}

SmallSystems ==
  UNION {[A : [1..n -> [1..n -> Entries]], b : {SeqOf(n, LAMBDA i : Q(2 * i - 3))}] :
           n \in 0..MaxDim}

InitSolve ==
  /\ numbers = "rational"
  /\ lengthMm = Q(1)
  /\ widthMm = Q(12) /\ depthMm = Q(1) /\ youngsModulusMpa = Q(1)
  /\ supports = <<>> /\ pointLoads = <<>> /\ udls = <<>>
  /\ nodes = <<>>
  /\ sys = [K |-> <<>>, F |-> <<>>, elementData |-> <<>>]
  /\ bc = [constrained |-> <<>>, free |-> <<>>, Kff |-> <<>>, Ff |-> <<>>]
  /\ \E system \in SmallSystems \cup ThresholdSystems :
       A = system.A /\ b = system.b
  /\ pc = "solveLinearSystem"
  /\ M = sliceRows(<<>>) /\ x = slice(<<>>) /\ k = 0 /\ pivot = Zero
  /\ freeDisplacements = Null
  /\ displacements = <<>> /\ reactions = <<>>
  /\ analysis = Pending

NextSolve ==
  \/ SolveEnter
  \/ SolveSingular
  \/ SolveEliminate
  \/ SolveReturn

SpecSolve == InitSolve /\ [][NextSolve]_vars

\* |M[i][k+1]| over the rows at and below the diagonal in the pivot column
PivotColumn == {Abs(M.rows[i][k + 1]) : i \in (k + 1)..Len(b)}

Largest == CHOOSE v \in PivotColumn : \A w \in PivotColumn : Le(w, v)

\* A pass either gives up (largest candidate below 1e-9) or pivots on the
\* candidate of largest absolute value
PivotStep ==
  (pc = "eliminate" /\ k < Len(b)) =>
    IF Lt(Largest, Epsilon)
      THEN pc' = "returned" /\ freeDisplacements' = Null /\ M' = M /\ x' = x
      ELSE pc' = "eliminate" /\ k' = k + 1 /\ Abs(pivot') = Largest

\* null is returned by a pass that found its largest candidate below 1e-9
NullStep ==
  (pc # "returned" /\ pc' = "returned" /\ freeDisplacements'.isNull) =>
    (pc = "eliminate" /\ k < Len(b) /\ Lt(Largest, Epsilon))

Solves(matrix, rhs, values) ==
  /\ Len(values) = Len(rhs)
  /\ \A i \in DOMAIN rhs :
       Total(DOMAIN values, [j \in DOMAIN values |-> Mul(matrix[i][j], values[j])]) = rhs[i]

\* C10: the solver works on copies (A and b never change); in every pass it
\* pivots on the entry of largest absolute value at or below the diagonal of
\* the pivot column; it returns null exactly when that value is below 1e-9,
\* and stops there; otherwise the vector it returns satisfies A x = b.
C10_Solver ==
  /\ [](pc = "returned" /\ ~freeDisplacements.isNull => Solves(A, b, freeDisplacements.values))
  /\ [][PivotStep /\ NullStep /\ A' = A /\ b' = b]_vars

\* A 3 x 3 system solved after a row exchange in the first pass
C10_Witness ==
  /\ pc = "returned" /\ ~freeDisplacements.isNull
  /\ Len(b) = 3
  /\ A[1][1] = Zero /\ A[2][1] = Q(1) /\ A[3][1] = Q(-2)
  /\ freeDisplacements.values # b

\* ------------------------------------------------------------------------
\* Textbook cases: a centre load on a simple span, a tip load on a
\* cantilever, and the same tip load on a bar that is only pinned at 0
\* ------------------------------------------------------------------------

MaxSpan == 4

MaxModulus == 2

\* Point-load magnitudes in kN
Magnitudes == {Frac(3, 1000), Frac(-1, 500), Frac(1, 200)}

InitClosedForm ==
  /\ numbers = "rational"
  /\ lengthMm \in {Q(i) : i \in 1..MaxSpan}
  /\ widthMm = Q(12) /\ depthMm = Q(1)
  /\ youngsModulusMpa \in {Q(i) : i \in 1..MaxModulus}
  /\ udls = <<>>
  /\ \E P \in Magnitudes :
       \/ /\ supports = <<[positionMm |-> Zero, type |-> "pinned"],
                          [positionMm |-> lengthMm, type |-> "pinned"]>>
          /\ pointLoads = <<[positionMm |-> Div(lengthMm, Q(2)), magnitudeKn |-> P]>>
       \/ /\ supports = <<[positionMm |-> Zero, type |-> "fixed"]>>
          /\ pointLoads = <<[positionMm |-> lengthMm, magnitudeKn |-> P]>>
       \/ /\ supports = <<[positionMm |-> Zero, type |-> "pinned"]>>
          /\ pointLoads = <<[positionMm |-> lengthMm, magnitudeKn |-> P]>>
  /\ pc = "buildNodes"
  /\ NotStarted

SpecClosedForm == InitClosedForm /\ [][Next]_vars

SimplySupported ==
  /\ Len(supports) = 2 /\ Len(pointLoads) = 1 /\ udls = <<>>
  /\ supports[1] = [positionMm |-> Zero, type |-> "pinned"]
  /\ supports[2] = [positionMm |-> lengthMm, type |-> "pinned"]
  /\ pointLoads[1].positionMm = Div(lengthMm, Q(2))

Cantilever ==
  /\ Len(supports) = 1 /\ Len(pointLoads) = 1 /\ udls = <<>>
  /\ supports[1] = [positionMm |-> Zero, type |-> "fixed"]
  /\ pointLoads[1].positionMm = lengthMm

\* The point load in newtons
LoadN == Mul(pointLoads[1].magnitudeKn, Q(1000))

\* C4: a span L pinned at both ends with one point load P at L / 2: each
\* support carries a vertical reaction of P / 2, and the sampled moment is
\* largest in magnitude at x = L / 2, where its magnitude is P L / 4.
C4_SimplySupported ==
  (Succeeded /\ SimplySupported) =>
    LET rows == analysis.reactionTable
        samples == analysis.diagrams
        peak == Div(Mul(Abs(LoadN), lengthMm), Q(4))
    IN  /\ Len(rows) = 2
        /\ \A i \in DOMAIN rows : rows[i].verticalKn = Div(pointLoads[1].magnitudeKn, Q(2))
        /\ \A i \in DOMAIN samples : Le(Abs(samples[i].moment), peak)
        /\ \E i \in DOMAIN samples :
             samples[i].x = Div(lengthMm, Q(2)) /\ Abs(samples[i].moment) = peak

SpanLengths == {Q(3000), Q(4000)}

SupportLayouts ==
  {<<>>,
   <<[positionMm |-> Zero, type |-> "pinned"]>>,
   <<[positionMm |-> Q(1500), type |-> "pinned"]>>,
   <<[positionMm |-> Zero, type |-> "fixed"]>>,
   <<[positionMm |-> Zero, type |-> "fixed"], [positionMm |-> Q(3000), type |-> "pinned"]>>,
   <<[positionMm |-> Zero, type |-> "pinned"], [positionMm |-> Q(3000), type |-> "pinned"]>>}

PointLoadLayouts == {<<>>, <<[positionMm |-> Q(1000), magnitudeKn |-> Q(5)]>>}

UdlLayouts ==
  {<<>>, <<[startMm |-> Q(500), endMm |-> Q(2500), magnitudeKnPerM |-> Q(4)]>>}

InitIEEE ==
  /\ numbers = "binary64"
  /\ lengthMm \in SpanLengths
  /\ widthMm = Q(45) /\ depthMm = Q(190) /\ youngsModulusMpa = Q(10000)
  /\ supports \in SupportLayouts
  /\ pointLoads \in PointLoadLayouts
  /\ udls \in UdlLayouts
  /\ pc = "buildNodes"
  /\ NotStarted

SpecIEEE == InitIEEE /\ [][Next]_vars

\* One newton, in kN
Tolerance == Frac(1, 1000)

\* C2: on a valid configuration whose analysis succeeds, the vertical
\* reactions of the reaction table add up, to within one newton, to the
\* point-load magnitudes (kN) plus, for every UDL, its intensity (kN/m) times
\* its length in metres.
C2_EquilibriumWithinTolerance ==
  (Succeeded /\ ValidConfiguration) =>
    LET rows == analysis.reactionTable
        sum == Total(DOMAIN rows, [i \in DOMAIN rows |-> rows[i].verticalKn])
    IN  Le(Abs(Sub(sum, AppliedLoadKn)), Tolerance)

\* ------------------------------------------------------------------------
\* Fully constrained meshes
\* ------------------------------------------------------------------------

\* Every node of the mesh is fixed
AllFixed == nodes # <<>> /\ \A i \in DOMAIN nodes : nodes[i].supportType = "fixed"

\* C11: when every node is fixed, the free list and the reduced system are
\* empty, the solver returns an empty solution and not null, the analysis is
\* a result and not the instability error, every displacement and every
\* sampled deflection is zero, and every reaction entry is the negated entry
\* of the global load vector at its DOF.
C11_AllFixed ==
  (Done /\ AllFixed) =>
    /\ bc.free = <<>> /\ A = <<>> /\ b = <<>>
    /\ freeDisplacements = [isNull |-> FALSE, values |-> <<>>]
    /\ Succeeded /\ ~Failed
    /\ Len(displacements) = 2 * Len(nodes)
    /\ \A d \in DOMAIN displacements : displacements[d] = Zero
    /\ \A s \in DOMAIN analysis.diagrams : analysis.diagrams[s].deflection = Zero
    /\ Len(reactions) = Len(sys.F)
    /\ \A d \in DOMAIN reactions : reactions[d] = Neg(sys.F[d])

\* A finished analysis of an all-fixed mesh that carries load and has samples
C11_Witness ==
  /\ Done /\ AllFixed
  /\ \E d \in DOMAIN sys.F : sys.F[d] # Zero
  /\ analysis.diagrams # <<>>

====
